---- MODULE Spec2Model ----
(***************************************************************************)
(* Consultation lifecycle and chat fan-out of the MedPredict backend.      *)
(*                                                                         *)
(* One Consultation row (apps/main_app/models.py), its participants, its   *)
(* Chat rows (apps/chats/models.py) and the channel-layer publishes are    *)
(* the shared state.  Every HTTP request or websocket frame being handled  *)
(* occupies a worker; the workers are interchangeable, so the requests     *)
(* being handled form a bag.  A handler is split into steps where another  *)
(* worker can observe a difference: the unlocked read of the row, the      *)
(* transaction (one step from its first write to its commit, unless it     *)
(* publishes in between), an in-transaction publish, and the on_commit     *)
(* hooks.  The database is PostgreSQL at READ COMMITTED: readers see the   *)
(* committed row, a writer blocks while another transaction holds the row  *)
(* lock (uncommitted UPDATE or SELECT ... FOR UPDATE).  Model.save()       *)
(* without update_fields writes every column from the in-memory instance.  *)
(***************************************************************************)
EXTENDS Integers, Sequences, FiniteSets, Bags, TLC

\* ---------------------------------------------------------------- bounds
MaxWorkers == 2      \* requests handled concurrently
MaxStarts == 4       \* requests started in one behaviour
MaxClock == 2        \* calls of timezone.now() by complete()
MaxChats == 1        \* Chat rows inserted in one behaviour

\* ------------------------------------------------------- program constants
MinMessageLength == 10

STATUS_CHOICES == {"requested", "active", "completed", "cancelled"}

\* The assigned doctor, the patient, and a user unrelated to the consultation.
Doctor == "D"
Patient == "P"
Users == {Doctor, Patient, "O"}

\* accounts/models.py user_type: the unrelated user is a doctor too.
Doctors == {Doctor, "O"}

NoReason == "null"
Reasons == {"busy"}
NoTime == 0
Bodies == {"hi", "hello there!"}

Kinds == {"accept", "reject", "complete", "end_consultation", "end_chat",
          "update", "chat_create", "ws_chat", "connect",
          "chat_update", "chat_destroy", "mark_read", "create", "ws_frame",
          "rate"}

\* consultation_date values; the consultation of the model is on the first.
ThisDate == "d0"
Dates == {ThisDate, "d1", "d2", "d3"}

\* The consultation of the model and another consultation of the same doctor
\* with another patient.
ThisConsultation == "c"
OtherConsultation == "c2"
OtherPatient == "Q"

\* The blank Chat instance.
NoChat ==
    [id |-> 0, consultation |-> "none", sender |-> "none", message |-> "",
     status |-> "none"]

VARIABLES
    row,           \* committed Consultation row: status, rejection_reason, archived_at
    participants,  \* committed Consultation.participants
    chats,         \* committed Chat rows of the consultation
    req,           \* bag of the requests being handled, one per busy worker
    started,       \* number of requests started so far
    now,           \* clock read by timezone.now()
    nextChatId,    \* next primary key of Chat
    published,     \* the group_send calls of the last publish that went through
    subscribers,   \* users with a websocket session in the consultation group
    connected,     \* users whose websocket session is open
    consultations, \* committed Consultation rows of the patient with the doctor, per date
    ratings,       \* committed RatingReview rows of the patient for the doctor
    response       \* the request answered last, with its response

vars == <<row, participants, chats, req, started, now, nextChatId,
          published, subscribers, connected, consultations, ratings, response>>

\* The blank request record.
IdleReq ==
    [kind |-> "none", pc |-> "idle", user |-> "none", arg |-> "none",
     snap |-> [status |-> "none", rejection_reason |-> NoReason, archived_at |-> NoTime],
     chat |-> NoChat,
     seen |-> "none",
     resp |-> "none", committed |-> FALSE, notified |-> FALSE, logged |-> FALSE]

\* A request of kind k by user u with payload a whose handler has read the row.
NewReq(k, u, a) ==
    [IdleReq EXCEPT !.kind = k, !.pc = "read", !.user = u, !.arg = a,
                    !.snap = row, !.seen = row.status]

\* Consultation as ConsultationViewSet.create leaves it: default status, no
\* rejection reason, not archived, patient and doctor already participants.
Init ==
    /\ row = [status |-> "requested", rejection_reason |-> NoReason, archived_at |-> NoTime]
    /\ participants = {Patient, Doctor}
    /\ chats = {}
    /\ req = EmptyBag
    /\ started = 0
    /\ now = 0
    /\ nextChatId = 1
    /\ published = <<>>
    /\ subscribers = {}
    /\ connected = {}
    /\ consultations = [d \in Dates |-> IF d = ThisDate THEN 1 ELSE 0]
    /\ ratings = <<>>
    /\ response = IdleReq

\* ------------------------------------------------------------ channel layer
UserTopic(u) == <<"user", u>>
ConsultationTopic == <<"consultation", "c">>

\* The channel-layer group a ChatConsumer session joins and publishes to:
\* "consultation_" and the UUID of the URL (consumers.py:37).
ConsumerGroup == <<"consultation_uuid", "c">>

\* The group Chat.send_ws_notification publishes to: "consultation_" and the
\* integer id of the consultation (chats/models.py:54).
ChatGroup(c) == <<"consultation_id", c>>

\* A group_send: the topic it is meant for, the group name it is sent to, its
\* payload, and the sessions it is forwarded to (filled in by Publish).
Event(topic, group, message, sender, status, system) ==
    [topic |-> topic, group |-> group, type |-> "chat_message", message |-> message,
     sender |-> sender, status |-> status, system |-> system, to |-> {}]

\* {"type": "consultation_notification", "message": message} on user_<id>
Notification(u, message) ==
    [topic |-> UserTopic(u), group |-> UserTopic(u),
     type |-> "consultation_notification", message |-> message,
     sender |-> "none", status |-> "none", system |-> "absent", to |-> {}]

\* The keys of the dict handle_chat_message and broadcast_system_message send.
ConsumerPayloadKeys == {"type", "message", "sender", "timestamp", "status", "system"}

\* The keys of the dict Chat.send_ws_notification sends.
ChatPayloadKeys == {"type", "message", "sender", "timestamp", "status"}

\* The keys of the dict send_notification and notify_participants send.
NotificationPayloadKeys == {"type", "message"}

\* The keys of the payload of a group_send, by its publisher.
PayloadKeys(e) ==
    IF e.type = "consultation_notification" THEN NotificationPayloadKeys
    ELSE IF e.group = ConsumerGroup THEN ConsumerPayloadKeys
    ELSE ChatPayloadKeys

\* A channel layer that hands a group_send to every user.
MembersAll(group) == Users

\* The members of a group: group_add is called by ChatConsumer.connect only,
\* for the consumer's group.
Members(group) == IF group = ConsumerGroup THEN subscribers ELSE {}

\* group_send puts the message on the channel of every member; the consumer
\* of an open session forwards it to its socket (ChatConsumer.chat_message).
Delivered(group) == Members(group) \cap connected

\* group_send calls going through: they replace the record of the previous ones.
Publish(events) ==
    published' = IF events = <<>> THEN published
                 ELSE [i \in DOMAIN events |->
                          [events[i] EXCEPT !.to = Delivered(events[i].group)]]

RECURSIVE SetToSeq(_)
SetToSeq(S) ==
    IF S = {} THEN <<>>
    ELSE LET x == CHOOSE y \in S : TRUE IN <<x>> \o SetToSeq(S \ {x})

\* notify_participants without its try/except: the channel-layer exception
\* reaches the caller.
NotifyParticipantsUncaught(ps, message, ok) ==
    [events |-> IF ok THEN [i \in 1..Cardinality(ps) |-> Notification(SetToSeq(ps)[i], message)]
                ELSE <<>>,
     logged |-> ~ok,
     raised |-> ~ok]

\* Consultation.notify_participants: one group_send per participant inside a
\* try block; an exception of the channel layer is caught and logged, nothing
\* is raised to the caller.  ok = the channel layer is reachable.
NotifyParticipants(ps, message, ok) ==
    [events |-> IF ok THEN [i \in 1..Cardinality(ps) |-> Notification(SetToSeq(ps)[i], message)]
                ELSE <<>>,
     logged |-> ~ok,
     raised |-> FALSE]

\* send_notification(user_id, message) of main_app/api.py: same contract.
send_notification(u, message, ok) ==
    [events |-> IF ok THEN <<Notification(u, message)>> ELSE <<>>,
     logged |-> ~ok,
     raised |-> FALSE]

\* ------------------------------------------------------------- transactions
\* The requests being handled.
Handled == BagToSet(req)

\* A database that lets a writer through while another transaction holds the
\* row lock.
LockIgnored == TRUE

\* A transaction holds the row lock of the consultation from its UPDATE or
\* SELECT ... FOR UPDATE to its commit or rollback: the requests at "intxn"
\* and "sent".  Another writer waits for it.
LockFree == \A r \in Handled : r.pc \notin {"intxn", "sent"}

\* What is left of a request once its handler has returned: the response and
\* what the handler did; the in-memory instance, the request data and the user
\* are dropped with the request.
Finish(r, resp) ==
    [IdleReq EXCEPT !.kind = r.kind, !.pc = "done", !.resp = resp, !.seen = r.seen,
                    !.committed = r.committed, !.notified = r.notified,
                    !.logged = r.logged]

\* A worker is free to take the next request.
Free == BagCardinality(req) < MaxWorkers /\ started < MaxStarts

\* A free worker takes request r and its handler goes on.
Start(r) ==
    /\ req' = req (+) SetToBag({r})
    /\ UNCHANGED response

\* A free worker takes request r and its handler returns resp at once.
Answer(r, resp) ==
    /\ response' = Finish(r, resp)
    /\ UNCHANGED req

\* The handler of request r goes on, the request now being q.
Continue(r, q) ==
    /\ req' = (req (-) SetToBag({r})) (+) SetToBag({q})
    /\ UNCHANGED response

\* The handler of request r returns resp, the request having become q; the
\* worker is free again.
Respond(r, q, resp) ==
    /\ req' = req (-) SetToBag({r})
    /\ response' = Finish(q, resp)

\* ------------------------------------------------- Consultation.accept path
\* models.py:165 guard of Consultation.accept
AcceptAllowed(status) == status = "requested"

\* api.py:463 status check of the accept view
AcceptViewAllowed(status) == status = "requested"

\* DoctorConsultationViewSet.accept: get_object() and the view's status check.
AcceptGet ==
    /\ Free
    /\ started' = started + 1
    /\ LET r == NewReq("accept", Doctor, "none") IN
       IF ~AcceptViewAllowed(r.snap.status)
       THEN Answer(r, "must_be_requested")
       ELSE Start(r)
    /\ UNCHANGED <<row, participants, chats, now, nextChatId,
                   published, subscribers, connected, consultations, ratings>>

\* accept without the access control of the view set.
AcceptAccessOpen(u) == "ok"

\* permission_classes [IsAuthenticated, IsDoctor] and get_queryset of
\* DoctorConsultationViewSet: a user who is not a doctor is refused, a doctor
\* other than the assigned one does not find the consultation.
AcceptAccess(u) ==
    IF u \notin Doctors THEN "permission_denied"
    ELSE IF u # Doctor THEN "not_found"
    ELSE "ok"

\* DoctorConsultationViewSet.accept requested by a user other than the
\* assigned doctor.
AcceptGetOther ==
    /\ Free
    /\ started' = started + 1
    /\ \E u \in Users \ {Doctor} :
        LET r == NewReq("accept", u, "none") IN
        IF AcceptAccess(u) # "ok"
        THEN Answer([r EXCEPT !.seen = "none"], AcceptAccess(u))
        ELSE IF ~AcceptViewAllowed(r.snap.status)
        THEN Answer(r, "must_be_requested")
        ELSE Start(r)
    /\ UNCHANGED <<row, participants, chats, now, nextChatId,
                   published, subscribers, connected, consultations, ratings>>

\* accept that saves the instance without setting the status.
AcceptedUnsaved(snap) == snap

\* models.py:168-171 self.status = "active"; self.save()
Accepted(snap) == [snap EXCEPT !.status = "active"]

\* Consultation.accept, one @transaction.atomic block: guard on the in-memory
\* status, save() of the whole instance, participants.add, commit.  Nothing
\* of the transaction is visible before its commit and a writer that meets
\* its row lock goes on after it, so the block is one step.
AcceptApply(r) ==
    /\ r.kind = "accept" /\ r.pc = "read"
    /\ IF AcceptAllowed(r.snap.status)
       THEN /\ LockFree
            /\ row' = Accepted(r.snap)
            /\ participants' = participants \cup {r.user, Patient}
            /\ Continue(r, [r EXCEPT !.snap = Accepted(r.snap),
                                      !.committed = TRUE, !.pc = "hooks"])
       ELSE /\ Respond(r, r, "acceptance_failed")
            /\ UNCHANGED <<row, participants>>
    /\ UNCHANGED <<chats, started, now, nextChatId, published, subscribers, connected, consultations, ratings>>

\* on_commit hook of accept, then the view's 200 response.
AcceptNotify(r) ==
    /\ r.kind = "accept" /\ r.pc = "hooks"
    /\ \E ok \in BOOLEAN :
        LET n == NotifyParticipants(participants, "Consultation accepted", ok) IN
        /\ Publish(n.events)
        /\ Respond(r, [r EXCEPT !.notified = (n.events # <<>>), !.logged = n.logged],
                   IF n.raised THEN "acceptance_failed" ELSE "ok")
    /\ UNCHANGED <<row, participants, chats, started, now, nextChatId,
                   subscribers, connected, consultations, ratings>>

\* ------------------------------------------------- Consultation.reject path
\* models.py:187 guard of Consultation.reject
RejectAllowed(status) == status = "requested"

\* The reject view without its status check.
RejectViewUnchecked(status) == TRUE

\* api.py:492 status check of the reject view
RejectViewAllowed(status) == status = "requested"

\* DoctorConsultationViewSet.reject: get_object() and the view's status check.
RejectGet ==
    /\ Free
    /\ started' = started + 1
    /\ \E reason \in Reasons :
        LET r == NewReq("reject", Doctor, reason) IN
        IF ~RejectViewAllowed(r.snap.status)
        THEN Answer(r, "must_be_requested")
        ELSE Start(r)
    /\ UNCHANGED <<row, participants, chats, now, nextChatId,
                   published, subscribers, connected, consultations, ratings>>

\* Entry of the view's transaction.atomic() and Consultation.reject up to the
\* registration of the on_commit hook: guard, reason and status set, save().
\* An exception leaves the atomic block (rollback) and reaches the view's
\* generic handler.
RejectApply(r) ==
    /\ r.kind = "reject" /\ r.pc = "read"
    /\ IF RejectAllowed(r.snap.status)
       THEN /\ LockFree
            /\ Continue(r, [r EXCEPT !.snap.rejection_reason = r.arg,
                                      !.snap.status = "cancelled",
                                      !.pc = "intxn"])
       ELSE Respond(r, r, "internal_server_error")
    /\ UNCHANGED <<row, participants, chats, started, now, nextChatId,
                   published, subscribers, connected, consultations, ratings>>

\* api.py:499 send_notification(patient, "Consultation rejected"), called
\* inside the atomic block, before its exit.
RejectSend(r) ==
    /\ r.kind = "reject" /\ r.pc = "intxn"
    /\ \E ok \in BOOLEAN :
        LET n == send_notification(Patient, "Consultation rejected", ok) IN
        /\ Publish(n.events)
        /\ IF n.raised
           THEN Respond(r, [r EXCEPT !.logged = TRUE], "internal_server_error")
           ELSE Continue(r, [r EXCEPT !.notified = (n.events # <<>>),
                                      !.logged = n.logged,
                                      !.pc = "sent"])
    /\ UNCHANGED <<row, participants, chats, started, now, nextChatId, subscribers, connected, consultations, ratings>>

\* Exit of the view's atomic block: the UPDATE commits.
RejectCommit(r) ==
    /\ r.kind = "reject" /\ r.pc = "sent"
    /\ row' = r.snap
    /\ Continue(r, [r EXCEPT !.committed = TRUE, !.pc = "hooks"])
    /\ UNCHANGED <<participants, chats, started, now, nextChatId, published,
                   subscribers, connected, consultations, ratings>>

\* on_commit hook of reject, then the view's response.
RejectNotify(r) ==
    /\ r.kind = "reject" /\ r.pc = "hooks"
    /\ \E ok \in BOOLEAN :
        LET n == NotifyParticipants(participants, "Consultation cancelled", ok) IN
        /\ Publish(n.events)
        /\ Respond(r, [r EXCEPT !.notified = (@ \/ n.events # <<>>),
                                 !.logged = (@ \/ n.logged)],
                   IF n.raised THEN "internal_server_error" ELSE "ok")
    /\ UNCHANGED <<row, participants, chats, started, now, nextChatId,
                   subscribers, connected, consultations, ratings>>

\* ----------------------------------------------- Consultation.complete path
\* models.py:200 guard of Consultation.complete; one error for both causes.
CompleteAllowed(status, hasChats) == status = "active" /\ hasChats

\* api.py:531 the view's check after complete() returned.
CompleteResponse(status) == IF status # "completed" THEN "no_chat_history" ELSE "ok"

\* api.py:521 status check of the complete view
CompleteViewAllowed(status) == status = "active"

\* DoctorConsultationViewSet.complete: get_object() and the view's status check.
CompleteGet ==
    /\ Free
    /\ started' = started + 1
    /\ LET r == NewReq("complete", Doctor, "none") IN
       IF ~CompleteViewAllowed(r.snap.status)
       THEN Answer(r, "must_be_active")
       ELSE Start(r)
    /\ UNCHANGED <<row, participants, chats, now, nextChatId,
                   published, subscribers, connected, consultations, ratings>>

\* api.py:528 consultation.refresh_from_db()
CompleteRefresh(r) ==
    /\ r.kind = "complete" /\ r.pc = "read"
    /\ Continue(r, [r EXCEPT !.snap = row, !.pc = "fresh"])
    /\ UNCHANGED <<row, participants, chats, started, now, nextChatId,
                   published, subscribers, connected, consultations, ratings>>

\* Consultation.complete as called by the two HTTP views, one
\* @transaction.atomic block: guard on the in-memory status and on
\* chats.exists(), status and archived_at set, save(), commit.
\* failure = the caller's error response.
CompleteBody(r, failure) ==
    IF CompleteAllowed(r.snap.status, chats # {})
    THEN /\ LockFree
         /\ now < MaxClock
         /\ now' = now + 1
         /\ row' = [r.snap EXCEPT !.status = "completed", !.archived_at = now + 1]
         /\ Continue(r, [r EXCEPT !.snap.status = "completed",
                                   !.snap.archived_at = now + 1,
                                   !.committed = TRUE, !.pc = "hooks"])
    ELSE /\ Respond(r, r, failure)
         /\ UNCHANGED <<row, now>>

CompleteApply(r) ==
    /\ r.kind = "complete" /\ r.pc = "fresh"
    /\ CompleteBody(r, "completion_failed_not_active_or_no_chats")
    /\ UNCHANGED <<participants, chats, started, nextChatId,
                   published, subscribers, connected, consultations, ratings>>

\* on_commit hook of complete, then the HTTP caller's response.
CompleteNotify(r) ==
    /\ r.kind \in {"complete", "end_consultation"} /\ r.pc = "hooks"
    /\ \E ok \in BOOLEAN :
        LET n == NotifyParticipants(participants, "Consultation completed", ok)
            failure == IF r.kind = "complete"
                       THEN "completion_failed_exception" ELSE "failed_to_end"
            resp == IF n.raised THEN failure
                    ELSE IF r.kind = "complete"
                         THEN CompleteResponse(r.snap.status) ELSE "ok"
        IN
        /\ Publish(n.events)
        /\ Respond(r, [r EXCEPT !.notified = (n.events # <<>>), !.logged = n.logged],
                   resp)
    /\ UNCHANGED <<row, participants, chats, started, now, nextChatId,
                   subscribers, connected, consultations, ratings>>

\* ChatViewSet.end_consultation: IsConsultationParticipant.has_permission, the
\* filtered get() and the view's chats.exists() check.  The queries filter on
\* participant and status, so a miss shows the handler no row at all.
EndConsultationGet ==
    /\ Free
    /\ started' = started + 1
    /\ \E u \in Users :
        LET r == NewReq("end_consultation", u, "none")
            member == u \in participants /\ row.status = "active"
        IN
        IF ~member THEN Answer([r EXCEPT !.seen = "none"], "permission_denied")
        ELSE IF chats = {} THEN Answer(r, "no_chat_history")
        ELSE Start(r)
    /\ UNCHANGED <<row, participants, chats, now, nextChatId,
                   published, subscribers, connected, consultations, ratings>>

\* api.py:122 consultation.complete()
EndConsultationApply(r) ==
    /\ r.kind = "end_consultation" /\ r.pc = "read"
    /\ CompleteBody(r, "failed_to_end")
    /\ UNCHANGED <<participants, chats, started, nextChatId,
                   published, subscribers, connected, consultations, ratings>>

\* ------------------------------------------------------ websocket sessions
\* AnonymousUser, the scope user of a connection without a token.
Anonymous == "anonymous"

\* The consultation id in the websocket URL: the consultation, or an id that
\* no Consultation row has.
ConsultationRefs == {ThisConsultation, "absent"}

\* get_valid_consultation without the participant and status filters.
AnyConsultation(u) == TRUE

\* ChatConsumer.get_valid_consultation: Consultation.objects.get(id=...,
\* participants=user, status="active")
ValidConsultation(u) == u \in participants /\ row.status = "active"

\* ChatConsumer.connect: an unauthenticated scope user is closed without a
\* code; get_valid_consultation() raising DoesNotExist, or any other
\* exception, closes with 4001; otherwise group_add and accept.
ConsumerOutcome(u, target) ==
    IF u = Anonymous THEN "close"
    ELSE IF target = ThisConsultation /\ ValidConsultation(u) THEN "accept"
    ELSE "close_4001"

\* ChatConsumer.connect reached with an authenticated scope user for the
\* consultation of the URL.  On "accept" the session joins the consultation
\* group and is open.  On any other outcome the connection is closed with
\* nothing subscribed: no variable changes, the step is a stuttering step.
Connect(u) ==
    /\ u \notin connected
    /\ ConsumerOutcome(u, ThisConsultation) = "accept"
    /\ subscribers' = subscribers \cup {u}
    /\ connected' = connected \cup {u}
    /\ UNCHANGED <<row, participants, chats, req, started, now,
                   nextChatId, published, response, consultations, ratings>>

\* The close of an open session, by the client or the server.  ChatConsumer
\* defines no disconnect() and no class-level groups, and nothing calls
\* group_discard: the session stays in the consultation group.
Disconnect(u) ==
    /\ u \in connected
    /\ connected' = connected \ {u}
    /\ UNCHANGED <<row, participants, chats, req, started, now,
                   nextChatId, published, subscribers, response, consultations, ratings>>

\* The credential of a connection attempt: none, one that AccessToken()
\* refuses, a verified one of a deleted user, a verified one of a deactivated
\* user, a verified one of an active user.
Tokens == {"missing", "invalid", "deleted", "inactive", "valid"}

\* asgi.py:28-30 wraps AuthMiddlewareStack(URLRouter(...)) in
\* JWTAuthMiddleware: the middleware runs before URLRouter has put
\* "url_route" in the scope.
UrlRouteInScope == FALSE

\* JWTAuthMiddleware.__call__: the close code it sends, or "inner" when it
\* calls the wrapped application.  Every exception inside the outer try block
\* (TokenError, User.DoesNotExist, KeyError of scope["url_route"]) closes with
\* 4001; is_active of the user is not read.
MiddlewareOutcome(token, u, target) ==
    IF token = "missing" THEN "close_4001"
    ELSE IF token \in {"invalid", "deleted"} THEN "close_4001"
    ELSE IF ~UrlRouteInScope THEN "close_4001"
    ELSE IF target # ThisConsultation THEN "close_4003"
    ELSE IF row.status # "active" THEN "close_4003"
    ELSE IF u \notin participants THEN "close_4003"
    ELSE "inner"

\* What is left of a connection attempt: the credential, the user it names,
\* the status of the consultation it referred to, and how it ended.
Attempt(token, u, target, outcome) ==
    [IdleReq EXCEPT !.kind = "connect", !.pc = "done", !.user = u, !.arg = token,
                    !.seen = IF target = ThisConsultation THEN row.status ELSE "absent",
                    !.resp = outcome]

\* A websocket connection attempt on the application of asgi.py:
\* JWTAuthMiddleware, then ChatConsumer.connect when the middleware lets it
\* through.
Handshake ==
    \E token \in Tokens, u \in Users, target \in ConsultationRefs :
        LET principal == IF token = "missing" THEN Anonymous ELSE u
            passed == MiddlewareOutcome(token, principal, target)
            outcome == IF passed = "inner" THEN ConsumerOutcome(principal, target)
                       ELSE passed
        IN  /\ response' = Attempt(token, principal, target, outcome)
            /\ IF outcome = "accept"
               THEN /\ principal \notin connected
                    /\ subscribers' = subscribers \cup {principal}
                    /\ connected' = connected \cup {principal}
               ELSE UNCHANGED <<subscribers, connected>>
            /\ UNCHANGED <<row, participants, chats, req, started, now,
                           nextChatId, published, consultations, ratings>>

\* handle_chat_end without the status check of consumers.py:73.
EndChatOutcomeUnchecked(entered, status, hasChats) ==
    IF ~entered THEN "failed_to_end_consultation" ELSE "complete"

\* The way handle_chat_end goes: the exception on entry of the atomic block
\* is answered with the error frame; a status other than active skips the
\* block body and sends nothing; complete() raises on its own guard, which
\* is answered with the error frame; otherwise complete() goes through.
EndChatOutcome(entered, status, hasChats) ==
    IF ~entered THEN "failed_to_end_consultation"
    ELSE IF status # "active" THEN "none"
    ELSE IF CompleteAllowed(status, hasChats) THEN "complete"
    ELSE "failed_to_end_consultation"

\* ChatConsumer.handle_chat_end up to the system broadcast.  The block is
\* entered with "async with transaction.atomic()"; django's Atomic implements
\* only the synchronous context-manager protocol, so whether the block is
\* entered at all depends on the framework build: entered = FALSE is the
\* exception on entry, caught by the handler's except clause.  When entered:
\* SELECT ... FOR UPDATE of the row, status check, complete().
WsEndChatApply ==
    /\ Free
    /\ started' = started + 1
    /\ \E u \in connected, entered \in BOOLEAN :
        LET r == NewReq("end_chat", u, "none")
            outcome == EndChatOutcome(entered, r.snap.status, chats # {})
        IN
        IF ~entered
        THEN /\ Answer([r EXCEPT !.seen = "none"], outcome)
             /\ UNCHANGED now
        ELSE /\ LockFree
             /\ IF outcome = "complete"
                THEN /\ now < MaxClock
                     /\ now' = now + 1
                     /\ Start([r EXCEPT !.snap.status = "completed",
                                         !.snap.archived_at = now + 1,
                                         !.pc = "intxn"])
                ELSE /\ Answer(r, outcome)
                     /\ UNCHANGED now
    /\ UNCHANGED <<row, participants, chats, nextChatId, published, subscribers, connected, consultations, ratings>>

\* consumers.py:75 broadcast_system_message inside the atomic block.  A
\* channel-layer exception leaves the block: rollback, error frame.
WsEndChatBroadcast(r) ==
    /\ r.kind = "end_chat" /\ r.pc = "intxn"
    /\ \E ok \in BOOLEAN :
        IF ok
        THEN /\ Publish(<<Event(ConsultationTopic, ConsumerGroup,
                                "Consultation ended by participant",
                                "system", "completed", "true")>>)
             /\ Continue(r, [r EXCEPT !.notified = TRUE, !.pc = "sent"])
        ELSE /\ Respond(r, r, "failed_to_end_consultation")
             /\ UNCHANGED published
    /\ UNCHANGED <<row, participants, chats, started, now, nextChatId,
                   subscribers, connected, consultations, ratings>>

\* Exit of the consumer's atomic block: the UPDATE of complete() commits.
WsEndChatCommit(r) ==
    /\ r.kind = "end_chat" /\ r.pc = "sent"
    /\ row' = r.snap
    /\ Continue(r, [r EXCEPT !.committed = TRUE, !.pc = "hooks"])
    /\ UNCHANGED <<participants, chats, started, now, nextChatId, published,
                   subscribers, connected, consultations, ratings>>

\* on_commit hook of complete() on the websocket path; no reply frame.
WsEndChatNotify(r) ==
    /\ r.kind = "end_chat" /\ r.pc = "hooks"
    /\ \E ok \in BOOLEAN :
        LET n == NotifyParticipants(participants, "Consultation completed", ok) IN
        /\ Publish(n.events)
        /\ Respond(r, [r EXCEPT !.logged = n.logged],
                   IF n.raised THEN "failed_to_end_consultation" ELSE "ok")
    /\ UNCHANGED <<row, participants, chats, started, now, nextChatId,
                   subscribers, connected, consultations, ratings>>

\* ChatConsumer.handle_chat_message: group_send of the inbound text to the
\* consultation group; no Chat row is written.
WsChatMessage ==
    /\ Free
    /\ started' = started + 1
    /\ \E u \in connected, body \in Bodies, ok \in BOOLEAN :
        LET r == NewReq("ws_chat", u, body) IN
        IF ok
        THEN /\ Publish(<<Event(ConsultationTopic, ConsumerGroup, body, u,
                              "delivered", "false")>>)
             /\ Answer([r EXCEPT !.notified = TRUE], "none")
        ELSE /\ Answer(r, "message_processing_failed")
             /\ UNCHANGED published
    /\ UNCHANGED <<row, participants, chats, now, nextChatId, subscribers, connected, consultations, ratings>>

\* Text frames a client sends: a chat message, an object without a message,
\* bare text, and a truncated object.
ChatFrame == "{\"message\": \"hello there!\"}"
EmptyFrame == "{}"
NotJson == {"hello there!", "{\"message\": "}
Frames == {ChatFrame, EmptyFrame} \cup NotJson

\* data.get("message") of an object without the key.
NoMessage == "null"

\* A parser that takes text it cannot parse as the message itself.
JsonLoadsLenient(text) ==
    IF text = ChatFrame THEN [valid |-> TRUE, message |-> "hello there!"]
    ELSE IF text = EmptyFrame THEN [valid |-> TRUE, message |-> NoMessage]
    ELSE [valid |-> TRUE, message |-> text]

\* json.loads(text_data) on the frames above, with data.get("message"):
\* a JSONDecodeError for the text that is not a JSON document.
JsonLoads(text) ==
    IF text = ChatFrame THEN [valid |-> TRUE, message |-> "hello there!"]
    ELSE IF text = EmptyFrame THEN [valid |-> TRUE, message |-> NoMessage]
    ELSE [valid |-> FALSE, message |-> NoMessage]

\* ChatConsumer.receive of a text frame that is not an end_chat command:
\* json.loads, then handle_chat_message.  The exception of json.loads is
\* answered with the error frame "Invalid message format" to the sender.
WsReceive ==
    /\ Free
    /\ started' = started + 1
    /\ \E u \in connected, text \in Frames, ok \in BOOLEAN :
        LET data == JsonLoads(text)
            r == [NewReq("ws_frame", u, text) EXCEPT !.seen = text]
        IN
        IF ~data.valid
        THEN /\ Answer(r, "invalid_message_format")
             /\ UNCHANGED published
        ELSE IF ok
        THEN /\ Publish(<<Event(ConsultationTopic, ConsumerGroup, data.message, u,
                              "delivered", "false")>>)
             /\ Answer([r EXCEPT !.notified = TRUE], "none")
        ELSE /\ Answer(r, "message_processing_failed")
             /\ UNCHANGED published
    /\ UNCHANGED <<row, participants, chats, now, nextChatId, subscribers, connected, consultations, ratings>>

\* ------------------------------------------------------------- HTTP chats
\* chats/models.py:26 MinLengthValidator(10) on Chat.message
MessageValid(body) == Len(body) >= MinMessageLength

\* ChatViewSet.create, one transaction.atomic() block: SELECT ... FOR UPDATE
\* of the consultation, status and participant checks, serializer validation,
\* INSERT of the Chat row, commit.  The 403 responses leave the block
\* normally, a validation error leaves it by exception and reaches the
\* generic handler.
ChatCreateApply ==
    /\ Free
    /\ started' = started + 1
    /\ LockFree
    /\ \E u \in Users, body \in Bodies :
        LET r == NewReq("chat_create", u, body) IN
        IF r.snap.status # "active"
        THEN Answer(r, "consultation_not_active") /\ UNCHANGED <<chats, nextChatId>>
        ELSE IF u \notin participants
        THEN Answer(r, "not_authorized") /\ UNCHANGED <<chats, nextChatId>>
        ELSE IF ~MessageValid(body)
        THEN Answer(r, "message_processing_failed") /\ UNCHANGED <<chats, nextChatId>>
        ELSE /\ Cardinality(chats) < MaxChats
             /\ chats' = chats \cup {[id |-> nextChatId, consultation |-> ThisConsultation,
                                      sender |-> u,
                                      message |-> body, status |-> "delivered"]}
             /\ nextChatId' = nextChatId + 1
             /\ Start([r EXCEPT !.committed = TRUE, !.pc = "hooks"])
    /\ UNCHANGED <<row, participants, now, published, subscribers, connected, consultations, ratings>>

\* ChatViewSet.create up to the call of super().create(): the atomic block is
\* entered, SELECT ... FOR UPDATE returns the committed row once no other
\* transaction holds its lock and locks it, then the status and participant
\* checks.  A 403 response leaves the block and releases the lock.
ChatCreateSelect ==
    /\ Free
    /\ started' = started + 1
    /\ LockFree
    /\ \E u \in Users, body \in Bodies :
        LET r == NewReq("chat_create", u, body) IN
        IF r.snap.status # "active"
        THEN Answer(r, "consultation_not_active")
        ELSE IF u \notin participants
        THEN Answer(r, "not_authorized")
        ELSE /\ Cardinality(chats) < MaxChats
             /\ Start([r EXCEPT !.pc = "intxn"])
    /\ UNCHANGED <<row, participants, chats, now, nextChatId,
                   published, subscribers, connected, consultations, ratings>>

\* super().create() inside the atomic block and the exit of the block:
\* serializer validation, INSERT of the Chat row, commit.  A validation error
\* leaves the block by exception: rollback, 500 from the generic handler.
ChatCreateInsert(r) ==
    /\ r.kind = "chat_create" /\ r.pc = "intxn"
    /\ IF ~MessageValid(r.arg)
       THEN /\ Respond(r, r, "message_processing_failed")
            /\ UNCHANGED <<chats, nextChatId>>
       ELSE /\ chats' = chats \cup {[id |-> nextChatId, consultation |-> ThisConsultation,
                                      sender |-> r.user,
                                      message |-> r.arg, status |-> "delivered"]}
            /\ nextChatId' = nextChatId + 1
            /\ Continue(r, [r EXCEPT !.committed = TRUE, !.pc = "hooks"])
    /\ UNCHANGED <<row, participants, started, now, published,
                   subscribers, connected, consultations, ratings>>

\* Chat.send_ws_notification, the on_commit hook registered by Chat.save:
\* group_send to the consultation group inside a try block.
ChatCreateNotify(r) ==
    /\ r.kind = "chat_create" /\ r.pc = "hooks"
    /\ \E ok \in BOOLEAN :
        /\ Publish(IF ok
                   THEN <<Event(ConsultationTopic, ChatGroup(ThisConsultation),
                                r.arg, r.user, "delivered", "absent")>>
                   ELSE <<>>)
        /\ Respond(r, [r EXCEPT !.notified = ok, !.logged = ~ok], "ok")
    /\ UNCHANGED <<row, participants, chats, started, now, nextChatId,
                   subscribers, connected, consultations, ratings>>

\* --------------------------------------------------- failing transactions
\* Consultation.accept raising after its save(), for example in
\* participants.add: the @transaction.atomic block rolls the UPDATE back, the
\* on_commit hook is dropped, the view answers 400 "Acceptance failed".
AcceptFail(r) ==
    /\ r.kind = "accept" /\ r.pc = "read"
    /\ AcceptAllowed(r.snap.status)
    /\ LockFree
    /\ Respond(r, r, "acceptance_failed")
    /\ UNCHANGED <<row, participants, chats, started, now, nextChatId,
                   published, subscribers, connected, consultations, ratings>>

\* The atomic block of the reject view raising after send_notification, in
\* the serialization of the response or in the commit: the UPDATE is rolled
\* back, the on_commit hook is dropped, the view answers 500.
RejectFail(r) ==
    /\ r.kind = "reject" /\ r.pc = "sent"
    /\ Respond(r, r, "internal_server_error")
    /\ UNCHANGED <<row, participants, chats, started, now, nextChatId,
                   published, subscribers, connected, consultations, ratings>>

\* Consultation.complete raising after its save(), called by the complete
\* view: rollback, 400 "Completion failed".
CompleteFail(r) ==
    /\ r.kind = "complete" /\ r.pc = "fresh"
    /\ CompleteAllowed(r.snap.status, chats # {})
    /\ LockFree
    /\ Respond(r, r, "completion_failed_exception")
    /\ UNCHANGED <<row, participants, chats, started, now, nextChatId,
                   published, subscribers, connected, consultations, ratings>>

\* ------------------------------------------------------------- Chat rows
\* The participants of a consultation.
ParticipantsOf(c) ==
    IF c = ThisConsultation THEN participants ELSE {Doctor, OtherPatient}

\* ChatViewSet.get_queryset and IsConsultationParticipant.has_object_permission:
\* the user is a participant of the consultation of the Chat row.
ChatVisible(u, c) == u \in ParticipantsOf(c.consultation)

\* ChatSerializer validation of an update: validate_consultation on the
\* consultation of the request data, MinLengthValidator on the message.
ChatDataValid(u, c) ==
    u \in ParticipantsOf(c.consultation) /\ MessageValid(c.message)

\* The event of Chat.send_ws_notification for a row.
ChatEvent(c) ==
    Event(<<"consultation", c.consultation>>, ChatGroup(c.consultation),
          c.message, c.sender, c.status, "absent")

\* Model.save() of a Chat instance: UPDATE of every column by primary key,
\* INSERT when no row has the key.
SaveChat(c) == chats' = {d \in chats : d.id # c.id} \cup {c}

\* ChatViewSet.update / partial_update (ModelViewSet): get_object(), and the
\* request data set on the instance: message and consultation are writable.
ChatUpdateGet ==
    /\ Free
    /\ started' = started + 1
    /\ \E u \in Users, c \in chats, body \in Bodies,
          target \in {ThisConsultation, OtherConsultation} :
        LET r == NewReq("chat_update", u, body) IN
        IF ~ChatVisible(u, c)
        THEN Answer(r, "not_found")
        ELSE Start([r EXCEPT !.chat = [c EXCEPT !.message = body,
                                                !.consultation = target]])
    /\ UNCHANGED <<row, participants, chats, now, nextChatId,
                   published, subscribers, connected, consultations, ratings>>

\* serializer.is_valid() and serializer.save() of the update: Chat.save()
\* writes the instance and, in autocommit, runs send_ws_notification at once.
ChatUpdateSave(r) ==
    /\ r.kind = "chat_update" /\ r.pc = "read"
    /\ IF ~ChatDataValid(r.user, r.chat)
       THEN /\ Respond(r, r, "bad_request")
            /\ UNCHANGED <<chats, published>>
       ELSE \E ok \in BOOLEAN :
            /\ SaveChat(r.chat)
            /\ Publish(IF ok THEN <<ChatEvent(r.chat)>> ELSE <<>>)
            /\ Respond(r, [r EXCEPT !.committed = TRUE, !.notified = ok,
                                     !.logged = ~ok], "ok")
    /\ UNCHANGED <<row, participants, started, now, nextChatId,
                   subscribers, connected, consultations, ratings>>

\* ChatViewSet.destroy (ModelViewSet): get_object() and delete().
ChatDestroy ==
    /\ Free
    /\ started' = started + 1
    /\ \E u \in Users, c \in chats :
        LET r == NewReq("chat_destroy", u, "none") IN
        IF ~ChatVisible(u, c)
        THEN Answer(r, "not_found") /\ UNCHANGED chats
        ELSE /\ chats' = chats \ {c}
             /\ Answer([r EXCEPT !.committed = TRUE], "no_content")
    /\ UNCHANGED <<row, participants, now, nextChatId,
                   published, subscribers, connected, consultations, ratings>>

\* ChatViewSet.mark_read: get_object() and chat.status = "read".
MarkReadGet ==
    /\ Free
    /\ started' = started + 1
    /\ \E u \in Users, c \in chats :
        LET r == NewReq("mark_read", u, "none") IN
        IF ~ChatVisible(u, c)
        THEN Answer(r, "error_marking_as_read")
        ELSE Start([r EXCEPT !.chat = [c EXCEPT !.status = "read"]])
    /\ UNCHANGED <<row, participants, chats, now, nextChatId,
                   published, subscribers, connected, consultations, ratings>>

\* chat.save() of mark_read, with the notification of Chat.save().
MarkReadSave(r) ==
    /\ r.kind = "mark_read" /\ r.pc = "read"
    /\ \E ok \in BOOLEAN :
        /\ SaveChat(r.chat)
        /\ Publish(IF ok THEN <<ChatEvent(r.chat)>> ELSE <<>>)
        /\ Respond(r, [r EXCEPT !.committed = TRUE, !.notified = ok,
                                 !.logged = ~ok], "ok")
    /\ UNCHANGED <<row, participants, started, now, nextChatId,
                   subscribers, connected, consultations, ratings>>

\* ---------------------------------------------------- consultation update
\* update / partial_update of the ModelViewSets over ConsultationDetailSerializer:
\* get_object().
UpdateGet ==
    /\ Free
    /\ started' = started + 1
    /\ \E st \in STATUS_CHOICES :
        Start(NewReq("update", Doctor, st))
    /\ UNCHANGED <<row, participants, chats, now, nextChatId,
                   published, subscribers, connected, consultations, ratings>>

\* An update whose serializer lists participants: a request without them
\* sets the relation to the empty list.
UpdateParticipantsFromData(ps) == {}

\* ConsultationDetailSerializer.Meta.fields does not list participants: the
\* many-to-many relation is not touched by serializer.save().
UpdateParticipants(ps) == ps

\* serializer.save(): "status" is a writable field of the serializer; the
\* validated value is set on the instance and the whole instance is saved in
\* autocommit mode.
UpdateSave(r) ==
    /\ r.kind = "update" /\ r.pc = "read"
    /\ LockFree
    /\ row' = [r.snap EXCEPT !.status = r.arg]
    /\ participants' = UpdateParticipants(participants)
    /\ Respond(r, [r EXCEPT !.committed = TRUE], "ok")
    /\ UNCHANGED <<chats, started, now, nextChatId,
                   published, subscribers, connected, consultations, ratings>>

\* ------------------------------------------------ ConsultationViewSet.create
\* ConsultationCreateSerializer.validate: a committed consultation of the
\* patient with the doctor on the date is a validation error.
Duplicate(d) == consultations[d] > 0

\* create up to the end of serializer.is_valid(): the request of the patient
\* for the doctor on date d is answered 400 when validate() finds a
\* consultation, and goes on to the INSERT otherwise.
CreateValidate ==
    /\ Free
    /\ started' = started + 1
    /\ \E d \in Dates :
        LET r == [IdleReq EXCEPT !.kind = "create", !.pc = "valid", !.user = Patient,
                                 !.arg = d,
                                 !.seen = IF Duplicate(d) THEN "exists" ELSE "absent"]
        IN  IF Duplicate(d)
            THEN Answer(r, "already_have_a_consultation")
            ELSE Start(r)
    /\ UNCHANGED <<row, participants, chats, now, nextChatId,
                   published, subscribers, connected, consultations, ratings>>

\* serializer.save(), participants.add() and the commit at the exit of
\* @transaction.atomic.  unique_consultation is DEFERRED: the INSERT goes
\* through and the constraint is checked by the commit, after the view's
\* try/except has returned.  A violation rolls the transaction back and leaves
\* the view as an IntegrityError nothing handles: the request is answered 500.
CreateCommit(r) ==
    /\ r.kind = "create" /\ r.pc = "valid"
    /\ IF Duplicate(r.arg)
       THEN /\ Respond(r, r, "internal_server_error")
            /\ UNCHANGED consultations
       ELSE /\ consultations' = [consultations EXCEPT ![r.arg] = @ + 1]
            /\ Respond(r, [r EXCEPT !.committed = TRUE], "created")
    /\ UNCHANGED <<row, participants, chats, started, now, nextChatId,
                   published, subscribers, connected, ratings>>


\* ---------------------------------------------------- ConsultationViewSet.rate
\* The "rating" of the request data: one outside and one inside 1..5.
RatingValues == {"0", "4"}

\* extra_kwargs of RatingSerializer: min_value 1, max_value 5.
RatingValid(v) == v \in {"1", "2", "3", "4", "5"}

\* models.py:157 Consultation.is_ratable
IsRatable(status, hasChats) == status = "completed" /\ hasChats

\* RatingReview.objects.create: one more row for each request.
CreateAlways(rows, v) == Append(rows, v)

\* RatingReview.objects.update_or_create(patient, doctor, defaults): the row
\* of the pair is updated when there is one and created otherwise; the
\* constraint one_rating_per_doctor makes a concurrent create fail, after
\* which the row is fetched and updated.
UpdateOrCreate(rows, v) ==
    IF rows = <<>> THEN <<v>> ELSE [rows EXCEPT ![1] = v]

\* rate: get_object() of the patient's consultation.  The request is not
\* counted in started: a patient can ask to rate at any time, and the
\* requests in progress are bounded by the workers.
RateGet ==
    /\ BagCardinality(req) < MaxWorkers
    /\ \E v \in RatingValues :
        Start(NewReq("rate", Patient, v))
    /\ UNCHANGED <<row, participants, chats, started, now, nextChatId,
                   published, subscribers, connected, consultations, ratings>>

\* serializer.is_valid(raise_exception=True): the range of the rating, then
\* RatingSerializer.validate with is_ratable() on the instance of get_object()
\* and the query for a rating of the pair.
RateValidate(r) ==
    /\ r.kind = "rate" /\ r.pc = "read"
    /\ IF ~RatingValid(r.arg)
       THEN Respond(r, r, "bad_request")
       ELSE IF ~IsRatable(r.snap.status, chats # {})
       THEN Respond(r, r, "can_only_rate_completed")
       ELSE IF ratings # <<>>
       THEN Respond(r, r, "already_rated")
       ELSE Continue(r, [r EXCEPT !.pc = "valid"])
    /\ UNCHANGED <<row, participants, chats, started, now, nextChatId,
                   published, subscribers, connected, consultations, ratings>>

\* update_or_create in autocommit, then the 201 response.
RateSave(r) ==
    /\ r.kind = "rate" /\ r.pc = "valid"
    /\ ratings' = UpdateOrCreate(ratings, r.arg)
    /\ Respond(r, [r EXCEPT !.committed = TRUE], "rating_submitted")
    /\ UNCHANGED <<row, participants, chats, started, now, nextChatId,
                   published, subscribers, connected, consultations>>

\* Every handler except the generic update of the consultation resource.
NextLifecycle ==
    \/ AcceptGet
    \/ \E r \in Handled : AcceptApply(r)
    \/ \E r \in Handled : AcceptNotify(r)
    \/ RejectGet
    \/ \E r \in Handled : RejectApply(r)
    \/ \E r \in Handled : RejectSend(r)
    \/ \E r \in Handled : RejectCommit(r)
    \/ \E r \in Handled : RejectNotify(r)
    \/ CompleteGet
    \/ \E r \in Handled : CompleteRefresh(r)
    \/ \E r \in Handled : CompleteApply(r)
    \/ \E r \in Handled : CompleteNotify(r)
    \/ EndConsultationGet
    \/ \E r \in Handled : EndConsultationApply(r)
    \/ \E u \in Users : Connect(u)
    \/ WsEndChatApply
    \/ \E r \in Handled : WsEndChatBroadcast(r)
    \/ \E r \in Handled : WsEndChatCommit(r)
    \/ \E r \in Handled : WsEndChatNotify(r)
    \/ WsChatMessage
    \/ ChatCreateApply
    \/ \E r \in Handled : ChatCreateNotify(r)

Next ==
    \/ NextLifecycle
    \/ UpdateGet
    \/ \E r \in Handled : UpdateSave(r)

Spec == Init /\ [][Next]_vars

\* The lifecycle and chat handlers alone: no request uses the generic update.
SpecLifecycle == Init /\ [][NextLifecycle]_vars

\* The lifecycle and chat handlers with accept requests of every user.
NextAccess ==
    \/ NextLifecycle
    \/ AcceptGetOther

SpecAccess == Init /\ [][NextAccess]_vars

\* The websocket sessions of a consultation that is accepted or rejected:
\* connection attempts, open sessions, their chat frames and their close.
NextWebsocket ==
    \/ AcceptGet
    \/ \E r \in Handled : AcceptApply(r)
    \/ \E r \in Handled : AcceptNotify(r)
    \/ RejectGet
    \/ \E r \in Handled : RejectApply(r)
    \/ \E r \in Handled : RejectSend(r)
    \/ \E r \in Handled : RejectCommit(r)
    \/ \E r \in Handled : RejectNotify(r)
    \/ \E u \in Users : Connect(u)
    \/ \E u \in Users : Disconnect(u)
    \/ Handshake
    \/ WsChatMessage

SpecWebsocket == Init /\ [][NextWebsocket]_vars

\* The HTTP handlers that write the consultation row, with the chat creation
\* in two steps: the row lock it takes is held across steps of the others.
NextChatWrite ==
    \/ AcceptGet
    \/ \E r \in Handled : AcceptApply(r)
    \/ \E r \in Handled : AcceptNotify(r)
    \/ RejectGet
    \/ \E r \in Handled : RejectApply(r)
    \/ \E r \in Handled : RejectSend(r)
    \/ \E r \in Handled : RejectCommit(r)
    \/ \E r \in Handled : RejectNotify(r)
    \/ CompleteGet
    \/ \E r \in Handled : CompleteRefresh(r)
    \/ \E r \in Handled : CompleteApply(r)
    \/ \E r \in Handled : CompleteNotify(r)
    \/ EndConsultationGet
    \/ \E r \in Handled : EndConsultationApply(r)
    \/ UpdateGet
    \/ \E r \in Handled : UpdateSave(r)
    \/ ChatCreateSelect
    \/ \E r \in Handled : ChatCreateInsert(r)
    \/ \E r \in Handled : ChatCreateNotify(r)

SpecChatWrite == Init /\ [][NextChatWrite]_vars

\* The three transitions of the doctor's view set with a failure inside each
\* transaction.
NextFailure ==
    \/ AcceptGet
    \/ \E r \in Handled : AcceptApply(r)
    \/ \E r \in Handled : AcceptFail(r)
    \/ \E r \in Handled : AcceptNotify(r)
    \/ RejectGet
    \/ \E r \in Handled : RejectApply(r)
    \/ \E r \in Handled : RejectSend(r)
    \/ \E r \in Handled : RejectCommit(r)
    \/ \E r \in Handled : RejectFail(r)
    \/ \E r \in Handled : RejectNotify(r)
    \/ CompleteGet
    \/ \E r \in Handled : CompleteRefresh(r)
    \/ \E r \in Handled : CompleteApply(r)
    \/ \E r \in Handled : CompleteFail(r)
    \/ \E r \in Handled : CompleteNotify(r)
    \/ ChatCreateApply
    \/ \E r \in Handled : ChatCreateNotify(r)

SpecFailure == Init /\ [][NextFailure]_vars

\* The requests on the chats resource of an accepted consultation.
NextChatRows ==
    \/ AcceptGet
    \/ \E r \in Handled : AcceptApply(r)
    \/ \E r \in Handled : AcceptNotify(r)
    \/ ChatCreateApply
    \/ \E r \in Handled : ChatCreateNotify(r)
    \/ ChatUpdateGet
    \/ \E r \in Handled : ChatUpdateSave(r)
    \/ ChatDestroy
    \/ MarkReadGet
    \/ \E r \in Handled : MarkReadSave(r)

SpecChatRows == Init /\ [][NextChatRows]_vars

\* The creation requests of the patient with the assigned doctor.
NextCreate ==
    \/ CreateValidate
    \/ \E r \in Handled : CreateCommit(r)

SpecCreate == Init /\ [][NextCreate]_vars

\* The publishes of an accepted consultation and the sessions they can reach:
\* the lifecycle notifications, the notification of a saved chat and the
\* broadcast of a websocket chat message, with sessions opening and closing.
NextDelivery ==
    \/ AcceptGet
    \/ \E r \in Handled : AcceptApply(r)
    \/ \E r \in Handled : AcceptNotify(r)
    \/ ChatCreateApply
    \/ \E r \in Handled : ChatCreateNotify(r)
    \/ \E u \in Users : Connect(u)
    \/ \E u \in Users : Disconnect(u)
    \/ WsChatMessage

SpecDelivery == Init /\ [][NextDelivery]_vars

\* The websocket end of session on an accepted consultation, with the chat
\* that completion needs and the generic update that moves the status.
NextEndChat ==
    \/ AcceptGet
    \/ \E r \in Handled : AcceptApply(r)
    \/ \E r \in Handled : AcceptNotify(r)
    \/ ChatCreateApply
    \/ \E r \in Handled : ChatCreateNotify(r)
    \/ \E u \in Users : Connect(u)
    \/ WsEndChatApply
    \/ \E r \in Handled : WsEndChatBroadcast(r)
    \/ \E r \in Handled : WsEndChatCommit(r)
    \/ \E r \in Handled : WsEndChatNotify(r)
    \/ UpdateGet
    \/ \E r \in Handled : UpdateSave(r)

SpecEndChat == Init /\ [][NextEndChat]_vars

\* Text frames received on the sessions of an accepted consultation.
NextReceive ==
    \/ AcceptGet
    \/ \E r \in Handled : AcceptApply(r)
    \/ \E r \in Handled : AcceptNotify(r)
    \/ \E u \in Users : Connect(u)
    \/ \E u \in Users : Disconnect(u)
    \/ WsReceive

SpecReceive == Init /\ [][NextReceive]_vars

\* Rate requests of the patient along the life of the consultation: accepted
\* or rejected, with a chat, completed.
NextRate ==
    \/ AcceptGet
    \/ \E r \in Handled : AcceptApply(r)
    \/ \E r \in Handled : AcceptNotify(r)
    \/ RejectGet
    \/ \E r \in Handled : RejectApply(r)
    \/ \E r \in Handled : RejectSend(r)
    \/ \E r \in Handled : RejectCommit(r)
    \/ \E r \in Handled : RejectNotify(r)
    \/ ChatCreateApply
    \/ \E r \in Handled : ChatCreateNotify(r)
    \/ CompleteGet
    \/ \E r \in Handled : CompleteRefresh(r)
    \/ \E r \in Handled : CompleteApply(r)
    \/ \E r \in Handled : CompleteNotify(r)
    \/ RateGet
    \/ \E r \in Handled : RateValidate(r)
    \/ \E r \in Handled : RateSave(r)

SpecRate == Init /\ [][NextRate]_vars

\* ================================================================= claims
TransitionKinds == {"accept", "reject", "complete", "end_consultation", "end_chat"}
CompletionKinds == {"complete", "end_consultation", "end_chat"}

\* The transition table: requested -> active -> completed, requested -> cancelled.
TransitionTable ==
    {<<"requested", "active">>, <<"active", "completed">>, <<"requested", "cancelled">>}

\* Two different requests, being handled or answered last, one of a kind in K1
\* and one of a kind in K2, have both committed a write of the row.
TwoCommitted(K1, K2) ==
    \/ \E r, q \in Handled :
        /\ r.kind \in K1 /\ q.kind \in K2 /\ r.committed /\ q.committed
        /\ r # q \/ CopiesIn(r, req) > 1
    \/ \E r \in Handled :
        /\ r.committed /\ response.committed
        /\ \/ r.kind \in K1 /\ response.kind \in K2
           \/ r.kind \in K2 /\ response.kind \in K1

\* C1: every change of the persisted status is requested->active,
\* active->completed or requested->cancelled; completed and cancelled are
\* never left.
C1_StatusFollowsTable ==
    [][row'.status # row.status => <<row.status, row'.status>> \in TransitionTable]_vars

\* C2: of the accept requests on one consultation at most one takes effect;
\* a second one never commits a status write.
C2_OneAcceptSucceeds == ~TwoCommitted({"accept"}, {"accept"})

\* C3: an accept and a reject on the same consultation never both take effect.
C3_AcceptRejectExclusive == ~TwoCommitted({"accept"}, {"reject"})

\* C4: a request that has published a lifecycle notification has committed
\* the status change it reports.
C4_NotifyAfterCommit ==
    \A r \in Handled \cup {response} :
        (r.kind \in TransitionKinds /\ r.notified) => r.committed

\* C5: every chat message event that is not a system message, published on the
\* consultation topic, carries the body and sender of a committed Chat row.
C5_ChatEventsPersisted ==
    \A i \in DOMAIN published :
        (published[i].topic = ConsultationTopic /\ published[i].system # "true")
            => \E c \in chats : /\ c.message = published[i].message
                                /\ c.sender = published[i].sender

\* C6: a transition request whose notification publish failed (caught and
\* logged) is past its write, and once answered it has committed its status
\* change and the answer is success.
C6_NotifyFailureNotPropagated ==
    /\ \A r \in Handled :
        (r.kind \in TransitionKinds /\ r.logged) => r.pc \in {"sent", "hooks"}
    /\ (response.kind \in TransitionKinds /\ response.logged)
            => (response.resp = "ok" /\ response.committed)

C6_Witness ==
    /\ response.kind = "complete" /\ response.logged
    /\ response.resp = "ok" /\ row.status = "completed"

\* C7: a completion request that found the consultation active and without
\* chat messages is answered with the "no chat history" error.
C7_NoChatHistoryReported ==
    (/\ response.kind \in CompletionKinds
     /\ response.seen = "active" /\ row.status = "active" /\ chats = {})
        => response.resp = "no_chat_history"

\* C8: a reject request that finds the persisted status other than requested
\* goes no further than the read: it is answered with the invalid-state error
\* and has written, committed and published nothing.
C8_RejectNonRequestedFails ==
    /\ \A r \in Handled : r.kind = "reject" => r.seen = "requested"
    /\ (response.kind = "reject" /\ response.seen # "requested")
            => /\ response.resp = "must_be_requested"
               /\ ~response.committed /\ ~response.notified

C8_Witness ==
    /\ response.kind = "reject" /\ response.seen = "active"
    /\ row.status = "active" /\ row.rejection_reason = NoReason

\* C9: archived_at is non-null exactly when the persisted status is completed.
C9_ArchivedIffCompleted ==
    (row.archived_at # NoTime) <=> (row.status = "completed")

\* C10: of the completion requests on one consultation at most one takes
\* effect; archived_at is written by one request only.
C10_OneCompletionSucceeds == ~TwoCommitted(CompletionKinds, CompletionKinds)

\* C11: a consultation that is still requested (or was cancelled without ever
\* being accepted) has no participants; here: while the persisted status is
\* requested the participants set is empty.
C11_ParticipantsEmptyUntilAccept ==
    row.status = "requested" => participants = {}

\* C14: rejection_reason is non-null only while the persisted status is
\* cancelled.
C14_ReasonOnlyWhenCancelled ==
    row.rejection_reason # NoReason => row.status = "cancelled"

\* C19: no chat message event with a body shorter than the minimum length is
\* published on the consultation topic, and no such Chat row is committed.
C19_ShortMessageNeverBroadcast ==
    /\ \A c \in chats : MessageValid(c.message)
    /\ \A i \in DOMAIN published :
        (published[i].topic = ConsultationTopic /\ published[i].system # "true")
            => MessageValid(published[i].message)

\* A step in which an accept commits: one more accept request is at its
\* on_commit hooks.
AcceptCommits ==
    \E q \in BagToSet(req') :
        /\ q.kind = "accept" /\ q.pc = "hooks" /\ q.committed
        /\ CopiesIn(q, req') > CopiesIn(q, req)

\* C12: the commit of an accept leaves the persisted status active and the
\* participants exactly the assigned doctor and the patient.
C12_AcceptResult ==
    [][AcceptCommits => (row'.status = "active" /\ participants' = {Doctor, Patient})]_vars

C12_Witness ==
    /\ \E r \in Handled : r.kind = "accept" /\ r.pc = "hooks" /\ r.committed
    /\ row.status = "active" /\ participants = {Doctor, Patient}

\* C13: only the assigned doctor's accept gets past the access control; the
\* accept of any other user is answered with a refusal and has committed and
\* published nothing.
C13_OnlyAssignedDoctorAccepts ==
    /\ \A r \in Handled : r.kind = "accept" => r.user = Doctor
    /\ (response.kind = "accept" /\ response.seen = "none")
            => /\ response.resp \in {"permission_denied", "not_found"}
               /\ ~response.committed /\ ~response.notified

C13_Witness ==
    /\ response.kind = "accept" /\ response.seen = "none"
    /\ response.resp = "not_found"
    /\ row.status = "requested" /\ participants = {Patient, Doctor}

\* C15: every session in the consultation group is an open session: a closed
\* session has left the group.
C15_ClosedSessionUnsubscribed ==
    subscribers \subseteq connected

\* The credentials that do not name an existing active user.
AuthenticationFailures == {"missing", "invalid", "deleted", "inactive"}

\* C16: a connection attempt of an authenticated user that refers to a missing
\* consultation, to one that is not active, or to one the user does not
\* participate in, is closed with 4003.
C16_AuthorizationFailureCloses4003 ==
    (/\ response.kind = "connect"
     /\ response.arg = "valid"
     /\ (response.seen # "active" \/ response.user \notin participants))
        => response.resp = "close_4003"

\* C17: a connection attempt is closed with 4001 when its credential is
\* missing, invalid or names no existing active user, and only then.
C17_AuthenticationFailureCloses4001 ==
    response.kind = "connect"
        => (response.resp = "close_4001" <=> response.arg \in AuthenticationFailures)

C20_ChatCommittedOnlyWhileActive ==
    [][/\ chats \subseteq chats'
       /\ chats' # chats => (row.status = "active" /\ row'.status = "active")]_vars

C20_Witness ==
    /\ \E q \in Handled : q.kind = "chat_create" /\ q.pc = "hooks" /\ q.committed
    /\ \E r \in Handled : r.kind \in {"complete", "reject", "update"} /\ r.pc \in {"read", "fresh"}
    /\ chats # {} /\ row.status = "active"

\* C21: every committed Chat row has a sender who is a participant of the
\* consultation of the row, and a chat creation answered "not authorized" has
\* committed and published nothing.
C21_SenderIsParticipant ==
    /\ \A c \in chats : c.sender \in ParticipantsOf(c.consultation)
    /\ (response.kind = "chat_create" /\ response.resp = "not_authorized")
            => (~response.committed /\ ~response.notified)

\* C23: no step deletes a committed Chat row or changes its body, its sender
\* or its consultation.
C23_ChatsAppendOnly ==
    [][\A c \in chats : \E d \in chats' :
            /\ d.id = c.id /\ d.message = c.message
            /\ d.sender = c.sender /\ d.consultation = c.consultation]_vars

\* The order of Chat.MESSAGE_STATUS_CHOICES.
StatusRank(st) == IF st = "sent" THEN 1 ELSE IF st = "delivered" THEN 2 ELSE 3

\* C24: no step moves the status of a committed Chat row to an earlier value.
C24_ChatStatusMonotonic ==
    [][\A c \in chats : \A d \in chats' :
            d.id = c.id => StatusRank(d.status) >= StatusRank(c.status)]_vars

\* A chat creation that holds the row lock with a valid body: it will commit.
ChatCommitInFlight ==
    \E q \in Handled : q.kind = "chat_create" /\ q.pc = "intxn" /\ MessageValid(q.arg)

\* C22: no completion of the active consultation is answered with the
\* missing-chat-history failure in a step taken while a chat creation that
\* will commit is in flight.
C22_CompleteSeesCommittingChat ==
    [][(/\ response' # response
        /\ response'.kind \in {"complete", "end_consultation"}
        /\ response'.resp \in {"no_chat_history",
                               "completion_failed_not_active_or_no_chats"}
        /\ row.status = "active" /\ chats = {})
            => ~ChatCommitInFlight]_vars

\* C25: every event published for the consultation topic is forwarded to
\* every open session that is subscribed to the consultation when it is
\* published.
C25_PublishedReachesSubscribers ==
    [][published' # published =>
        \A i \in DOMAIN published' :
            published'[i].topic = ConsultationTopic
                => (subscribers \cap connected) \subseteq published'[i].to]_vars

C27_OneLifecycleEventPerParticipant ==
    [][(published' # published /\ published' # <<>>
            /\ published'[1].type = "consultation_notification")
        => /\ \A r \in Handled : CopiesIn(r, req') < CopiesIn(r, req) => ~r.notified
           /\ Len(published') = Cardinality(participants)
           /\ \A u \in participants :
                \E i \in DOMAIN published' : published'[i].topic = UserTopic(u)]_vars

\* C28: an end_chat command issued by a session of the active consultation
\* that has chat messages is not answered with a failure in the step that
\* receives it: it goes on to complete().
C28_EndSessionForwarded ==
    [][(/\ started' = started + 1
        /\ response' # response /\ response'.kind = "end_chat"
        /\ row.status = "active" /\ chats # {})
            => response'.resp # "failed_to_end_consultation"]_vars

\* C29: a step that answers an accept, reject or complete that did not commit
\* leaves the row and the participants as they were, and the request has
\* published no notification.
C29_TransitionsAllOrNothing ==
    [][(/\ response' # response
        /\ response'.kind \in {"accept", "reject", "complete"}
        /\ ~response'.committed)
            => /\ row' = row /\ participants' = participants
               /\ ~response'.notified]_vars

\* C30: there is at most one consultation of a patient with a doctor on a date,
\* and a creation request that found none and did not persist its own is
\* answered with the conflict response.
C30_UniqueOrConflict ==
    /\ \A d \in Dates : consultations[d] <= 1
    /\ (response.kind = "create" /\ response.seen = "absent" /\ ~response.committed)
        => response.resp = "duplicate_consultation_detected"

\* C31: every chat_message event forwarded to a session carries the six keys
\* of the outbound envelope, and the event published for a saved Chat row
\* carries the id of the row with its message, sender and status.
EnvelopeKeys == {"type", "message", "sender", "timestamp", "status", "system"}

C31_EnvelopeAndRowFields ==
    [][published' # published =>
        \A i \in DOMAIN published' :
            LET e == published'[i] IN
            e.type = "chat_message" =>
                /\ e.to # {} => EnvelopeKeys \subseteq PayloadKeys(e)
                /\ e.group # ConsumerGroup =>
                    /\ "id" \in PayloadKeys(e)
                    /\ \E c \in chats' : /\ c.message = e.message
                                         /\ c.sender = e.sender
                                         /\ c.status = e.status]_vars

\* A step in which a transition of the given kinds commits: one more such
\* request is at its on_commit hooks.
Commits(kinds) ==
    \E q \in BagToSet(req') :
        /\ q.kind \in kinds /\ q.pc = "hooks" /\ q.committed
        /\ CopiesIn(q, req') > CopiesIn(q, req)

\* C32: the commit of an accept leaves rejection_reason and archived_at as
\* they were committed, the commit of a reject leaves archived_at and the
\* participants, the commit of a completion leaves rejection_reason and the
\* participants.
C32_OnlyListedFieldsChange ==
    [][/\ Commits({"accept"})
            => /\ row'.rejection_reason = row.rejection_reason
               /\ row'.archived_at = row.archived_at
       /\ Commits({"reject"})
            => /\ row'.archived_at = row.archived_at
               /\ participants' = participants
       /\ Commits({"complete", "end_consultation", "end_chat"})
            => /\ row'.rejection_reason = row.rejection_reason
               /\ participants' = participants]_vars

\* C33: the users who are participants when the consultation is created are
\* participants in every state: no accept, reject, completion, end of session,
\* chat write or consultation update removes one of them.
C33_ParticipantsNeverRemoved ==
    {Patient, Doctor} \subseteq participants

C33_Witness ==
    /\ response.kind = "update" /\ response.committed
    /\ connected # {} /\ connected \subseteq participants
    /\ row.status # "active"

\* C34: a websocket chat message received while the persisted status is not
\* active is answered consultation-not-active and is not broadcast.
C34_ChatMessageNeedsActive ==
    [][(/\ started' = started + 1
        /\ response' # response /\ response'.kind = "ws_chat"
        /\ row.status # "active")
            => /\ response'.resp = "consultation_not_active"
               /\ ~response'.notified
               /\ published' = published]_vars

\* C35: the step that receives a websocket end_chat while the persisted status
\* is not active changes neither the row nor the participants, publishes
\* nothing, starts no completion, and leaves the sessions and the group as
\* they are.
C35_EndChatNoOpUnlessActive ==
    [][(/\ started' = started + 1
        /\ row.status # "active"
        /\ \/ response' # response /\ response'.kind = "end_chat"
           \/ \E q \in BagToSet(req') : q.kind = "end_chat" /\ ~q \in BagToSet(req))
            => /\ row' = row /\ participants' = participants
               /\ published' = published
               /\ req' = req
               /\ subscribers' = subscribers /\ connected' = connected]_vars

C35_Witness ==
    /\ response.kind = "end_chat" /\ response.resp = "none"
    /\ response.seen \in {"completed", "cancelled"}
    /\ row.status = response.seen
    /\ subscribers \cap connected # {}

\* C36: the step that receives a text frame that is not a JSON document
\* answers the sender with the error frame, publishes nothing, changes no
\* row, and leaves the sessions and the group as they are.
C36_InvalidJsonOnlyErrorReply ==
    [][(/\ started' = started + 1
        /\ response' # response /\ response'.kind = "ws_frame"
        /\ response'.seen \in NotJson)
            => /\ response'.resp = "invalid_message_format"
               /\ ~response'.notified /\ ~response'.committed
               /\ published' = published
               /\ row' = row /\ participants' = participants /\ chats' = chats
               /\ subscribers' = subscribers /\ connected' = connected]_vars

C36_Witness ==
    /\ response.kind = "ws_frame" /\ response.seen \in NotJson
    /\ response.resp = "invalid_message_format"
    /\ Cardinality(subscribers \cap connected) >= 2
    /\ published # <<>> /\ published[1].type = "chat_message"

C38_RatingOnlyCompletedOnePerPair ==
    [][/\ Len(ratings') <= 1
       /\ \A q \in BagToSet(req') :
            (q.kind = "rate" /\ q.pc = "valid" /\ CopiesIn(q, req') > CopiesIn(q, req))
                => q.seen = "completed" /\ chats # {}
       /\ ratings' # ratings
            => \E q \in BagToSet(req) :
                /\ q.kind = "rate" /\ q.pc = "valid" /\ q.seen = "completed"
                /\ CopiesIn(q, req') < CopiesIn(q, req)
       /\ (response' # response /\ response'.kind = "rate"
                /\ response'.seen # "completed")
            => /\ ~response'.committed
               /\ response'.resp \in {"bad_request", "can_only_rate_completed"}
               /\ ratings' = ratings]_vars

C38_Witness ==
    /\ response.kind = "rate" /\ response.committed
    /\ response.resp = "rating_submitted"
    /\ ratings # <<>>
    /\ \E q \in Handled : q.kind = "rate" /\ q.pc = "valid"

====
